---- MODULE Spec2Model ----
(***************************************************************************)
(* Request orchestration of the source clients of the Sefaria Discord bot: *)
(* the per-client rate limiter (_rate_limit), the GET and its              *)
(* classification (_make_request), the Dicta catalog cache                 *)
(* (get_books_library) and the queries over the cached catalog             *)
(* (search_books, get_random_book).                                        *)
(*                                                                         *)
(* Time is counted in ticks of 100 ms.  The code reads the event loop's    *)
(* clock only to form current_time - last_request_time and to sleep for a  *)
(* duration, so the model keeps these durations (time_since_last, and per  *)
(* sleeping call the time already waited) instead of absolute timestamps;  *)
(* each saturates at the value it is compared with.  A call is one         *)
(* coroutine; every action runs a coroutine from one suspension point to   *)
(* the next, which is the atomicity the single-threaded cooperative        *)
(* scheduler gives.                                                        *)
(***************************************************************************)
EXTENDS Integers, Sequences, FiniteSets, TLC

\* ------------------------------------------------------------------ bounds
MaxCalls == 2
MaxBooks == 2
MaxLimit == 2
MaxVerses == 4
MaxHandlers == 2
MaxItems == 2
MaxElements == 3
MaxMessages == 2
MaxReplies == 2
MaxProcs == 2
MaxText == 5
MaxViews == 2
MaxPages == 4

\* --------------------------------------------------------------- constants
\* asyncio.sleep(2) of HebcalClient's 429 branch, in ticks
BackoffDelay == 20

\* timeout=8.0 of the handlers' asyncio.wait_for, in seconds
HandlerTimeout == 8

Clients == {"sefaria", "hebcal", "nli", "chabad", "dicta", "torahcalc", "opentorah"}

\* minimum interval between two requests of a client, in ticks
rate_limit_delay ==
  [cl \in Clients |->
     CASE cl = "sefaria"   -> 10
       [] cl = "hebcal"    -> 2
       [] cl = "nli"       -> 10
       [] cl = "chabad"    -> 10
       [] cl = "dicta"     -> 10
       [] cl = "torahcalc" -> 5
       [] cl = "opentorah" -> 10]

CallIds == 1..MaxCalls

\* ---------------------------------------------------------- catalog entries
lower(s) ==
  [i \in 1..Len(s) |->
     CASE s[i] = "A" -> "a"
       [] s[i] = "B" -> "b"
       [] OTHER      -> s[i]]

\* Python's `x in y` on strings
contains(y, x) ==
  \E i \in 0..(Len(y) - Len(x)) : SubSeq(y, i + 1, i + Len(x)) = x

Entry(dn, dne, au, aue, ce) ==
  [displayName |-> dn, displayNameEnglish |-> dne, author |-> au,
   authorEnglish |-> aue, categoryEnglish |-> ce]

\* a catalog as books.json delivers it
CatA == << Entry(<<"A">>, <<"a", "b">>, <<"B">>, <<"b">>, <<"A", "b">>),
           Entry(<<"b">>, <<"B">>, <<>>, <<"a">>, <<"B">>) >>

\* ----------------------------------------------------------- HTTP responses
NoBooks == <<>>

\* what the body of a 200 response holds
Bodies ==
  { [shape |-> "list", books |-> CatA], [shape |-> "list", books |-> NoBooks],
    [shape |-> "dict", books |-> NoBooks], [shape |-> "badjson", books |-> NoBooks],
    [shape |-> "html", books |-> NoBooks] }

NoBody == [shape |-> "none", books |-> NoBooks]

Statuses == {200, 404, 429, 500}

\* exceptions session.get can raise; all are subclasses of Exception
TransportErrors == {"ClientError", "TimeoutError"}

Responses ==
  { [exc |-> e, status |-> 0, json_ctype |-> FALSE, body |-> NoBody] : e \in TransportErrors }
  \cup
  { [exc |-> "none", status |-> s, json_ctype |-> FALSE, body |-> NoBody] : s \in Statuses \ {200} }
  \cup
  { [exc |-> "none", status |-> 200, json_ctype |-> j, body |-> b] : j \in BOOLEAN, b \in Bodies }

\* -------------------------------------------------------------------- state
VARIABLES
  time_since_last,  \* per client: loop time - last_request_time, saturated at the delay
  session,          \* per client: the aiohttp session exists
  books_cache,      \* DictaClient.books_cache
  calls,            \* per call: position and locals of the coroutine
  returned,         \* the latest return of a call, as its caller receives it
  query,            \* the latest search_books / get_random_book call and its return value
  text_call,        \* the latest SefariaClient.get_text call and its return value
  handlers,         \* per chat interaction: the handler's kind, position and wait so far
  blocking,         \* the handler whose synchronous call occupies the loop's thread, or 0
  domain_call,      \* the latest call of a client's domain method and how it ended
  classified,       \* the latest response handed to a client's try block and its outcome
  chabad_keys,      \* ChabadClient.public_key and secret_key
  chabad_call,      \* the latest ChabadClient._make_request from its header on
  main_pc,          \* position of main()
  web_runner,       \* main()'s web_runner: "None", "started" or "cleaned"
  bot_closed,       \* bot.close() has run
  closed_sessions,  \* the clients whose session.close() has run
  bot_task,         \* the task of bot.start(token): "none", "pending", "raised" or "returned"
  interrupted,      \* shutdown has been requested (KeyboardInterrupt, cancellation of main())
  processed_messages, \* per message listener: its set of processed message ids
  in_flight,        \* per listener and message: handlers suspended before their reply
  replies,          \* per listener and message: replies sent
  lock_file,        \* /tmp/sefaria_bot.lock: 0 when absent, else the pid written to it
  procs,            \* per bot process: position of main(), its PORT, atexit hook registered
  truncate_call,    \* the latest truncate_text call and its return value
  random_call,      \* the latest SefariaClient.get_random_text call and its return value
  archive_call,     \* the latest ArchiveSearchModal.on_submit and its reply
  help_views        \* per help message: its HelpNavigationView

handler_vars == << handlers, blocking >>

\* the state outside the request path and the catalog queries
chabad_vars == << chabad_keys, chabad_call >>

main_vars == << main_pc, web_runner, bot_closed, closed_sessions, bot_task, interrupted >>

\* the mention handlers' state
mention_vars == << processed_messages, in_flight, replies >>

\* the state of the bot's event handlers, views and helpers
lock_vars == << lock_file, procs >>

ui_vars == << mention_vars, lock_vars, truncate_call, random_call, archive_call, help_views >>

side_vars == << text_call, handler_vars, domain_call, classified, chabad_vars, main_vars >>

extra == << side_vars, ui_vars >>

vars == << time_since_last, session, books_cache, calls, returned, query, extra >>

None == [kind |-> "None", body |-> NoBody]

IdleCall == [client |-> "none", pc |-> "Idle", sleep |-> 0, waited |-> 0, gets |-> 0]

NoReturn ==
  [call |-> 0, client |-> "none", status |-> 0, raised |-> "none", result |-> None,
   waited |-> 0, fetched |-> FALSE]

NoQuery ==
  [op |-> "none", q |-> <<>>, category |-> <<>>, author |-> <<>>, limit |-> 0,
   books |-> NoBooks, found |-> FALSE]

Unloaded == [loaded |-> FALSE, books |-> NoBooks]

\* the request path's variables
request_vars == << time_since_last, session, books_cache, calls, returned >>

\* a 'text' / 'he' value of a texts payload: key absent, a string, or a list
Absent == [kind |-> "absent", items |-> << >>]
Str == [kind |-> "str", items |-> << >>]
Verses(n) == [kind |-> "list", items |-> [i \in 1..n |-> i]]

\* get_text's `return None`
NoText ==
  [kind |-> "None", text |-> Absent, he |-> Absent, single_verse |-> FALSE, truncated |-> FALSE]

NoTextCall == [called |-> FALSE, reference |-> << >>, upstream |-> NoText, result |-> NoText]

HandlerIds == 1..MaxHandlers

IdleHandler == [kind |-> "none", pc |-> "Idle", waited |-> 0, reply |-> "none"]

NoDomainCall ==
  [method |-> "none", payload |-> "none", books |-> NoBooks, q |-> << >>, category |-> << >>,
   author |-> << >>, limit |-> 0, raised |-> "none", value |-> "none"]

NoResponse == [exc |-> "none", status |-> 0, json_ctype |-> FALSE, body |-> NoBody]

Unclassified == [client |-> "none", resp |-> NoResponse, raised |-> "none", result |-> None]

\* ChabadClient() as the bot constructs it
NoKeys == [public_key |-> "None", secret_key |-> "None"]

\* _parse_html_content's `result = {}`; a field holds the position of the
\* element it was taken from, 0 when the key is not set
NoFields == [kind |-> "Fields", structured_data |-> 0, title |-> 0, description |-> 0]

NoChabadCall ==
  [called |-> FALSE, use_auth |-> FALSE, resp |-> NoResponse, page |-> << >>, html |-> << >>,
   dispatched |-> FALSE, authorization |-> FALSE, raised |-> "none",
   result |-> [NoFields EXCEPT !.kind = "None"]]

Listeners == {"SefariaBot", "AIMessageHandler"}

Messages == 1..MaxMessages

\* `self.processed_messages = set()`: the ids that the deliveries of a
\* behaviour name are kept one by one, the other ids of the set are counted
NoProcessed == [ids |-> {}, others |-> 0]

\* no message has been delivered
MentionInit ==
  /\ processed_messages = [l \in Listeners |-> NoProcessed]
  /\ in_flight = [l \in Listeners |-> [m \in Messages |-> 0]]
  /\ replies = [l \in Listeners |-> [m \in Messages |-> 0]]

Procs == 1..MaxProcs

\* `port = int(os.getenv('PORT', 8080))`
Ports == {8080, 8081}

NotStarted == [pc |-> "start", port |-> 8080, atexit |-> FALSE]

\* no process has entered main() and there is no lock file
LockInit ==
  /\ lock_file = 0
  /\ procs = [p \in Procs |-> NotStarted]

NoTruncateCall == [called |-> FALSE, text |-> << >>, max_length |-> 0, result |-> << >>]

NoRandomCall ==
  [called |-> FALSE, with_category |-> FALSE, index_returned |-> FALSE, index |-> << >>,
   fetched |-> FALSE, chosen |-> 0, raised |-> "none", value |-> "None"]

NoArchiveCall ==
  [called |-> FALSE, archive_type |-> "none", payload |-> "None", records |-> << >>,
   timed_out |-> FALSE, requests |-> 0, reply |-> "none"]

ViewIds == 1..MaxViews

\* no help message has been sent
NoView == [embeds |-> 0, current_page |-> 0, pressed |-> "none", response |-> "none"]

NoViews == [v \in ViewIds |-> NoView]

UiInit ==
  /\ MentionInit
  /\ LockInit
  /\ truncate_call = NoTruncateCall
  /\ random_call = NoRandomCall
  /\ archive_call = NoArchiveCall
  /\ help_views = NoViews

\* main() has not started
MainInit ==
  /\ main_pc = "start"
  /\ web_runner = "None"
  /\ bot_closed = FALSE
  /\ closed_sessions = {}
  /\ bot_task = "none"
  /\ interrupted = FALSE

ExtraInit ==
  /\ UiInit
  /\ text_call = NoTextCall
  /\ MainInit
  /\ chabad_keys = NoKeys
  /\ chabad_call = NoChabadCall
  /\ classified = Unclassified
  /\ domain_call = NoDomainCall
  /\ handlers = [h \in HandlerIds |-> IdleHandler]
  /\ blocking = 0

\* last_request_time = 0 and the loop's clock at 0
Init ==
  /\ time_since_last = [cl \in Clients |-> 0]
  /\ session = [cl \in Clients |-> FALSE]
  /\ books_cache = Unloaded
  /\ calls = [c \in CallIds |-> IdleCall]
  /\ returned = NoReturn
  /\ query = NoQuery
  /\ ExtraInit

\* ------------------------------------------------------ _rate_limit (gate)
Min(a, b) == IF a <= b THEN a ELSE b

\* a variant that sleeps for the elapsed time instead of the remainder
rate_limit_sleeps_elapsed(cl, since_last) ==
  IF since_last < rate_limit_delay[cl]
    THEN since_last
    ELSE 0

\* how long _rate_limit asks asyncio.sleep for; 0 = no suspension
rate_limit(cl, since_last) ==
  IF since_last < rate_limit_delay[cl]
    THEN rate_limit_delay[cl] - since_last
    ELSE 0

\* ------------------------------------------------- _make_request (try body)
IsSubclass(e, base) ==
  \/ e = base
  \/ base = "Exception" /\ e \in {"ClientError", "TimeoutError", "ContentTypeError",
                                   "JSONDecodeError", "AttributeError", "TypeError"}
  \/ base = "ClientError" /\ e = "ContentTypeError"

\* the except clauses of each client's _make_request, in order
Handlers ==
  [cl \in Clients |->
     IF cl = "sefaria" THEN << "ClientError", "Exception" >> ELSE << "Exception" >>]

\* a variant whose handlers stop at aiohttp.ClientError
catches_client_errors_only(cl, e) == IsSubclass(e, "ClientError")

catches(cl, e) == \E i \in 1..Len(Handlers[cl]) : IsSubclass(e, Handlers[cl][i])

ValidJson(body) == body.shape \in {"list", "dict"}
LooksLikeJson(body) == body.shape \in {"list", "dict", "badjson"}

\* a variant that turns a decode failure into an empty record
response_json_lenient(resp) ==
  IF ~resp.json_ctype THEN [raised |-> "ContentTypeError", result |-> None]
  ELSE IF ~ValidJson(resp.body) THEN [raised |-> "none", result |-> [kind |-> "Fields", body |-> NoBody]]
  ELSE [raised |-> "none", result |-> [kind |-> "Json", body |-> resp.body]]

\* aiohttp's response.json(): checks the declared content type, then parses
response_json(resp) ==
  IF ~resp.json_ctype THEN [raised |-> "ContentTypeError", result |-> None]
  ELSE IF ~ValidJson(resp.body) THEN [raised |-> "JSONDecodeError", result |-> None]
  ELSE [raised |-> "none", result |-> [kind |-> "Json", body |-> resp.body]]

\* json.loads on a body already read as text
json_loads(body) ==
  IF ValidJson(body)
    THEN [raised |-> "none", result |-> [kind |-> "Json", body |-> body]]
    ELSE [raised |-> "JSONDecodeError", result |-> None]

\* the branch taken for a 200 response
on_200(cl, resp) ==
  CASE cl \in {"sefaria", "hebcal", "nli", "torahcalc"} -> response_json(resp)
    [] cl = "opentorah" -> [raised |-> "none", result |-> [kind |-> "Text", body |-> resp.body]]
    [] cl = "chabad" ->
         IF resp.json_ctype
           THEN response_json(resp)
           ELSE [raised |-> "none", result |-> [kind |-> "Fields", body |-> resp.body]]
    [] cl = "dicta" ->
         IF resp.json_ctype
           THEN response_json(resp)
           ELSE IF LooksLikeJson(resp.body) /\ json_loads(resp.body).raised = "none"
                  THEN json_loads(resp.body)
                  ELSE [raised |-> "none", result |-> [kind |-> "Content", body |-> resp.body]]

\* a variant without the 429 branch
never_sleeps_on_429(cl) == FALSE

\* the 429 branch: only HebcalClient sleeps before returning None
sleeps_on_429(cl) == cl = "hebcal"

\* what the try block raises (or "none") and evaluates to
try_body(cl, resp) ==
  IF resp.exc # "none" THEN [raised |-> resp.exc, result |-> None]
  ELSE IF resp.status = 200 THEN on_200(cl, resp)
  ELSE [raised |-> "none", result |-> None]

\* the whole try/except: what reaches the caller of _make_request
make_request(cl, resp) ==
  LET r == try_body(cl, resp)
  IN  IF r.raised # "none" /\ catches(cl, r.raised)
        THEN [raised |-> "none", result |-> None]
        ELSE r

\* ------------------------------------------------------- get_books_library
BooksResult(books) == [kind |-> "Json", body |-> [shape |-> "list", books |-> books]]

\* `result and isinstance(result, list)`
is_nonempty_list(result) ==
  result.kind = "Json" /\ result.body.shape = "list" /\ result.body.books # NoBooks

store_books(result) ==
  IF is_nonempty_list(result)
    THEN [loaded |-> TRUE, books |-> result.body.books]
    ELSE [loaded |-> TRUE, books |-> NoBooks]

\* a variant that tests the cache for truth (`if not self.books_cache`)
cache_hit_if_nonempty(cache) == cache.loaded /\ cache.books # NoBooks

\* `if self.books_cache is None` fails: the memoized list is returned
cache_hit(cache) == cache.loaded

\* ------------------------------------------------------------------ actions
\* Dicta's _make_request is only called by get_books_library
is_library(cl) == cl = "dicta"

\* all calls of a behaviour address one client instance
SameClient(cl) == \A d \in CallIds : calls[d].pc # "Idle" => calls[d].client = cl

\* issue the GET: _rate_limit stamps the time and session.get follows
\* without a suspension point in between
dispatch(call) ==
  [call EXCEPT !.pc = "Dispatched", !.sleep = 0, !.waited = 0, !.gets = @ + 1]

finish(call) == [call EXCEPT !.pc = "Done", !.sleep = 0, !.waited = 0]

\* a variant that issues the GET again after the 429 sleep
after_backoff_retry(call) == dispatch(call)

\* after the 429 sleep the call returns None; the GET is not re-issued
after_backoff(call) == finish(call)

\* a variant with one last_request_time shared by all clients
stamp_shared(since_last, cl) == [other \in Clients |-> 0]

\* `self.last_request_time = asyncio.get_event_loop().time()`
stamp(since_last, cl) == [since_last EXCEPT ![cl] = 0]

\* A caller enters _make_request (for Dicta: get_books_library): the
\* session is ensured and _rate_limit runs up to its sleep, or through
\* to the GET when no sleep is needed.  The ids number the calls in the
\* order in which they enter.
Enter(c, cl) ==
  /\ calls[c].pc = "Idle"
  /\ \A d \in CallIds : d < c => calls[d].pc # "Idle"
  /\ LET started == [calls[c] EXCEPT !.client = cl]
         sleep == rate_limit(cl, time_since_last[cl])
     IN  IF is_library(cl) /\ cache_hit(books_cache)
           THEN /\ calls' = [calls EXCEPT ![c] = finish(started)]
                /\ returned' = [NoReturn EXCEPT !.call = c, !.client = cl,
                                                !.result = BooksResult(books_cache.books)]
                /\ UNCHANGED << session, time_since_last >>
           ELSE /\ session' = [session EXCEPT ![cl] = TRUE]
                /\ UNCHANGED returned
                /\ IF sleep > 0
                     THEN /\ calls' = [calls EXCEPT ![c] =
                                [started EXCEPT !.pc = "RateWait", !.sleep = sleep]]
                          /\ UNCHANGED time_since_last
                     ELSE /\ calls' = [calls EXCEPT ![c] = dispatch(started)]
                          /\ time_since_last' = stamp(time_since_last, cl)
  /\ UNCHANGED << books_cache, query, extra >>

Call(c, cl) ==
  /\ SameClient(cl)
  /\ Enter(c, cl)

\* asyncio.sleep in _rate_limit returns (at the deadline or later): the
\* time is stamped and the GET is issued.
RateLimitWake(c) ==
  /\ calls[c].pc = "RateWait"
  /\ calls[c].waited >= calls[c].sleep
  /\ calls' = [calls EXCEPT ![c] = dispatch(calls[c])]
  /\ time_since_last' = stamp(time_since_last, calls[c].client)
  /\ UNCHANGED << session, books_cache, returned, query, extra >>

\* The GET completes with a response or a transport exception and the
\* rest of _make_request runs; get_books_library then fills the cache.
Respond(c, resp) ==
  /\ calls[c].pc = "Dispatched"
  /\ LET cl == calls[c].client
         r == make_request(cl, resp)
         ret == [NoReturn EXCEPT !.call = c, !.client = cl, !.status = resp.status,
                                 !.raised = r.raised, !.fetched = TRUE]
     IN  IF resp.exc = "none" /\ resp.status = 429 /\ sleeps_on_429(cl)
           THEN /\ calls' = [calls EXCEPT ![c] =
                       [@ EXCEPT !.pc = "Backoff", !.sleep = BackoffDelay, !.waited = 0]]
                /\ UNCHANGED << books_cache, returned >>
           ELSE /\ calls' = [calls EXCEPT ![c] = finish(calls[c])]
                /\ IF is_library(cl) /\ r.raised = "none"
                     THEN /\ books_cache' = store_books(r.result)
                          /\ returned' = [ret EXCEPT !.result = BooksResult(books_cache'.books)]
                     ELSE /\ returned' = [ret EXCEPT !.result = r.result]
                          /\ UNCHANGED books_cache
  /\ UNCHANGED << session, time_since_last, query, extra >>

\* asyncio.sleep(2) of the 429 branch returns and the call returns None.
BackoffWake(c) ==
  /\ calls[c].pc = "Backoff"
  /\ calls[c].waited >= calls[c].sleep
  /\ calls' = [calls EXCEPT ![c] = after_backoff(calls[c])]
  /\ returned' = [NoReturn EXCEPT !.call = c, !.client = calls[c].client, !.status = 429,
                                  !.waited = calls[c].waited, !.fetched = TRUE]
  /\ UNCHANGED << session, time_since_last, books_cache, query, extra >>

\* the loop's clock advances by one tick
Tick ==
  /\ time_since_last' =
       [cl \in Clients |-> Min(time_since_last[cl] + 1, rate_limit_delay[cl])]
  /\ calls' =
       [c \in CallIds |->
          IF calls[c].pc \in {"RateWait", "Backoff"}
            THEN [calls[c] EXCEPT !.waited = Min(@ + 1, calls[c].sleep)]
            ELSE calls[c]]
  /\ UNCHANGED << session, books_cache, returned, query, extra >>

Next ==
  \/ \E c \in CallIds, cl \in Clients : Call(c, cl)
  \/ \E c \in CallIds : RateLimitWake(c)
  \/ \E c \in CallIds, resp \in Responses : Respond(c, resp)
  \/ \E c \in CallIds : BackoffWake(c)
  \/ Tick

\* any interleaving of calls on one client instance
Spec == Init /\ [][Next]_vars

\* ------------------------------------------- calls issued one after another
\* a call enters _rate_limit only when no other call is inside _rate_limit
GateSeqCall(c, cl) ==
  /\ \A d \in CallIds : calls[d].pc # "RateWait"
  /\ Call(c, cl)

GateSeqNext ==
  \/ \E c \in CallIds, cl \in Clients : GateSeqCall(c, cl)
  \/ \E c \in CallIds : RateLimitWake(c)
  \/ \E c \in CallIds, resp \in Responses : Respond(c, resp)
  \/ \E c \in CallIds : BackoffWake(c)
  \/ Tick

\* the event loop keeps its clock running and resumes a sleeper whose
\* deadline has passed
GateSeqSpec ==
  /\ Init
  /\ [][GateSeqNext]_vars
  /\ WF_vars(Tick)
  /\ \A c \in CallIds : WF_vars(RateLimitWake(c))

\* a call starts only after the previous call has returned
SerialCall(c, cl) ==
  /\ \A d \in CallIds : calls[d].pc \in {"Idle", "Done"}
  /\ Call(c, cl)

SerialNext ==
  \/ \E c \in CallIds, cl \in Clients : SerialCall(c, cl)
  \/ \E c \in CallIds : RateLimitWake(c)
  \/ \E c \in CallIds, resp \in Responses : Respond(c, resp)
  \/ \E c \in CallIds : BackoffWake(c)
  \/ Tick

SerialSpec == Init /\ [][SerialNext]_vars

\* ------------------------------------------------ calls on two clients
\* the client with the 429 branch and the client with the catalog cache
PairClients == {"hebcal", "dicta"}

\* the first call goes to the one client, every other call to the other
PairCall(c, cl) ==
  /\ cl = (IF c = 1 THEN "hebcal" ELSE "dicta")
  /\ Enter(c, cl)

PairNext ==
  \/ \E c \in CallIds, cl \in PairClients : PairCall(c, cl)
  \/ \E c \in CallIds : RateLimitWake(c)
  \/ \E c \in CallIds, resp \in Responses : Respond(c, resp)
  \/ \E c \in CallIds : BackoffWake(c)
  \/ Tick

\* any interleaving of calls on two client instances
PairSpec == Init /\ [][PairNext]_vars

\* ------------------------------------- queries over the cached catalog
\* catalog entries; a key that is absent reads as '' (book.get(key, ''))
EntrySet ==
  { Entry(<<"A">>, <<>>, <<>>, <<>>, <<"A", "b">>),
    Entry(<<>>, <<"a", "B">>, <<>>, <<>>, <<"B">>),
    Entry(<<>>, <<>>, <<"B">>, <<>>, <<"a">>),
    Entry(<<>>, <<>>, <<>>, <<"A", "b">>, <<>>),
    Entry(<<"b">>, <<>>, <<"A">>, <<>>, <<"a", "B">>) }

RECURSIVE SeqsUpTo(_, _)
SeqsUpTo(S, n) ==
  IF n = 0 THEN { <<>> }
  ELSE LET shorter == SeqsUpTo(S, n - 1)
       IN  shorter \cup { Append(t, x) : t \in shorter, x \in S }

Catalogs == SeqsUpTo(EntrySet, MaxBooks)

\* arguments the command layer can pass
Texts == { <<>>, <<"a">>, <<"a", "B">> }
Limits == 0..MaxLimit

\* a variant that compares the author filter without lower-casing the fields
entry_matches_author_case(book, query_, category, author) ==
  LET query_lower == lower(query_)
      category_lower == lower(category)
      author_lower == lower(author)
      m1 == \/ contains(lower(book.displayName), query_lower)
            \/ contains(lower(book.displayNameEnglish), query_lower)
      m2 == IF \/ contains(lower(book.author), query_lower)
               \/ contains(lower(book.authorEnglish), query_lower)
              THEN TRUE ELSE m1
      m3 == IF category # <<>> /\ ~contains(lower(book.categoryEnglish), category_lower)
              THEN FALSE ELSE m2
      m4 == IF /\ author # <<>>
               /\ ~contains(book.author, author_lower)
               /\ ~contains(book.authorEnglish, author_lower)
              THEN FALSE ELSE m3
  IN  m4

\* the value of `match` at the end of one iteration of search_books' loop
entry_matches(book, query_, category, author) ==
  LET query_lower == lower(query_)
      category_lower == lower(category)
      author_lower == lower(author)
      m1 == \/ contains(lower(book.displayName), query_lower)
            \/ contains(lower(book.displayNameEnglish), query_lower)
      m2 == IF \/ contains(lower(book.author), query_lower)
               \/ contains(lower(book.authorEnglish), query_lower)
              THEN TRUE ELSE m1
      m3 == IF category # <<>> /\ ~contains(lower(book.categoryEnglish), category_lower)
              THEN FALSE ELSE m2
      m4 == IF /\ author # <<>>
               /\ ~contains(lower(book.author), author_lower)
               /\ ~contains(lower(book.authorEnglish), author_lower)
              THEN FALSE ELSE m3
  IN  m4

\* the loop of search_books from entry i on, filtered_books collected so far
RECURSIVE scan_books(_, _, _, _, _, _, _)
scan_books(books, i, filtered_books, query_, category, author, limit) ==
  IF i > Len(books) THEN filtered_books
  ELSE IF entry_matches(books[i], query_, category, author)
         THEN LET appended == Append(filtered_books, books[i])
              IN  IF Len(appended) >= limit
                    THEN appended
                    ELSE scan_books(books, i + 1, appended, query_, category, author, limit)
         ELSE scan_books(books, i + 1, filtered_books, query_, category, author, limit)

search_books(books, query_, category, author, limit) ==
  scan_books(books, 1, <<>>, query_, category, author, limit)

\* a variant that compares the category case-sensitively
random_candidates_case(books, category) ==
  IF category # <<>>
    THEN SelectSeq(books, LAMBDA book : contains(book.categoryEnglish, category))
    ELSE books

\* the list get_random_book draws from
random_candidates(books, category) ==
  IF category # <<>>
    THEN SelectSeq(books, LAMBDA book : contains(lower(book.categoryEnglish), lower(category)))
    ELSE books

\* the cache has been filled by an earlier get_books_library
QueryInit ==
  /\ time_since_last = [cl \in Clients |-> rate_limit_delay[cl]]
  /\ session = [cl \in Clients |-> cl = "dicta"]
  /\ books_cache \in { [loaded |-> TRUE, books |-> cat] : cat \in Catalogs }
  /\ calls = [c \in CallIds |-> IdleCall]
  /\ returned = NoReturn
  /\ query = NoQuery
  /\ ExtraInit

\* search_books on a filled cache: get_books_library returns the cached
\* list without suspending and the scan follows.
SearchBooks(query_, category, author, limit) ==
  /\ cache_hit(books_cache)
  /\ query' = [op |-> "search", q |-> query_, category |-> category, author |-> author,
               limit |-> limit,
               books |-> search_books(books_cache.books, query_, category, author, limit),
               found |-> TRUE]
  /\ UNCHANGED << time_since_last, session, books_cache, calls, returned, extra >>

\* get_random_book on a filled cache; random.choice may pick any element.
GetRandomBook(category) ==
  /\ cache_hit(books_cache)
  /\ LET books == random_candidates(books_cache.books, category)
         base == [NoQuery EXCEPT !.op = "random", !.category = category]
     IN  IF books # <<>>
           THEN \E i \in 1..Len(books) :
                  query' = [base EXCEPT !.books = << books[i] >>, !.found = TRUE]
           ELSE query' = base
  /\ UNCHANGED << time_since_last, session, books_cache, calls, returned, extra >>

QueryNext ==
  \/ \E query_ \in Texts, category \in Texts, author \in Texts, limit \in Limits :
       SearchBooks(query_, category, author, limit)
  \/ \E category \in Texts : GetRandomBook(category)

QuerySpec == QueryInit /\ [][QueryNext]_vars

\* ---------------------------------------------------------------- get_text
FieldValues == {Absent, Str} \cup { Verses(n) : n \in 0..MaxVerses }

\* what _make_request hands get_text: None, a JSON array, or a JSON object
\* (the markers are no keys of the upstream payload)
TextPayloads ==
  {NoText, [NoText EXCEPT !.kind = "list"]}
  \cup { [NoText EXCEPT !.kind = "dict", !.text = t, !.he = h] : t, h \in FieldValues }

\* references a user can type
References ==
  { << "G", "1", ":", "2" >>, << " ", "G", "1", ":", "2", " " >>, << "G", "1" >>,
    << "G", "1", ":", "2", "-", "3" >>, << "G", "-", "H", "1", ":", "2" >> }

\* str.strip()
RECURSIVE strip(_)
strip(s) ==
  IF s = << >> THEN s
  ELSE IF Head(s) = " " THEN strip(Tail(s))
  ELSE IF s[Len(s)] = " " THEN strip(SubSeq(s, 1, Len(s) - 1))
  ELSE s

\* `':' in reference and not '-' in reference`
is_single_verse(reference) ==
  contains(reference, << ":" >>) /\ ~contains(reference, << "-" >>)

\* items[:n]
slice(items, n) == SubSeq(items, 1, Min(n, Len(items)))

\* one `if key in text_data and isinstance(text_data[key], list)` block
cut_field(text_data, key, n, marker) ==
  IF text_data[key].kind = "list" /\ Len(text_data[key].items) > n
    THEN [text_data EXCEPT ![key].items = slice(@, n), ![marker] = TRUE]
    ELSE text_data

\* a variant that leaves the 'he' list as it came
single_verse_path_keeps_he(text_data) ==
  cut_field(text_data, "text", 1, "single_verse")

\* the branch for a single verse
single_verse_path(text_data) ==
  cut_field(cut_field(text_data, "text", 1, "single_verse"), "he", 1, "single_verse")

\* a variant that cuts after two elements
truncated_path_cuts_two(text_data) ==
  cut_field(cut_field(text_data, "text", 2, "truncated"), "he", 2, "truncated")

\* the branch for ranges and chapters
truncated_path(text_data) ==
  cut_field(cut_field(text_data, "text", 3, "truncated"), "he", 3, "truncated")

\* get_text after _make_request has returned text_data
get_text(reference, text_data) ==
  LET stripped == strip(reference)
  IN  IF text_data.kind # "dict" THEN NoText
      ELSE IF text_data.text.kind = "absent" /\ text_data.he.kind = "absent" THEN NoText
      ELSE IF is_single_verse(stripped) THEN single_verse_path(text_data)
      ELSE truncated_path(text_data)

GetText(reference, text_data) ==
  /\ text_call' = [called |-> TRUE, reference |-> reference, upstream |-> text_data,
                   result |-> get_text(reference, text_data)]
  /\ UNCHANGED << request_vars, query, ui_vars, handler_vars, domain_call, classified, chabad_vars, main_vars >>

TextNext == \E reference \in References, text_data \in TextPayloads : GetText(reference, text_data)

TextSpec == Init /\ [][TextNext]_vars

\* ----------------------------------------------------------- chat handlers
\* Handlers run on the event loop's one thread.  Their clock counts
\* seconds.  The acknowledgement (defer) and the sending of the reply are
\* not waits on a source and take no time here.
HandlerKinds == {"random_text", "translate_direct", "on_message"}

\* the external call is awaited (under asyncio.wait_for); the translator
\* and the AI completion are called synchronously
awaits_external_call(kind) == kind = "random_text"

\* The interaction arrives and its handler runs up to the external call.
StartHandler(h, kind) ==
  /\ handlers[h].pc = "Idle"
  /\ blocking = 0
  /\ IF awaits_external_call(kind)
       THEN /\ handlers' = [handlers EXCEPT ![h] = [IdleHandler EXCEPT !.kind = kind, !.pc = "Waiting"]]
            /\ UNCHANGED blocking
       ELSE /\ handlers' = [handlers EXCEPT ![h] = [IdleHandler EXCEPT !.kind = kind, !.pc = "Blocking"]]
            /\ blocking' = h
  /\ UNCHANGED << request_vars, query, ui_vars, text_call, domain_call, classified, chabad_vars, main_vars >>

\* The awaited client call returns a payload or None and the handler sends
\* the result or the embed of its else branch.
ClientReturns(h, payload) ==
  /\ handlers[h].pc = "Waiting"
  /\ blocking = 0
  /\ handlers' = [handlers EXCEPT ![h] =
        [@ EXCEPT !.pc = "Replied", !.reply = IF payload THEN "result" ELSE "alternative"]]
  /\ UNCHANGED << request_vars, query, ui_vars, text_call, domain_call, classified, chabad_vars, blocking, main_vars >>

\* wait_for's timer fires: TimeoutError reaches `except Exception` and the
\* fallback embed is sent.
WaitForTimeout(h) ==
  /\ handlers[h].pc = "Waiting"
  /\ blocking = 0
  /\ handlers[h].waited >= HandlerTimeout
  /\ handlers' = [handlers EXCEPT ![h] = [@ EXCEPT !.pc = "Replied", !.reply = "fallback"]]
  /\ UNCHANGED << request_vars, query, ui_vars, text_call, domain_call, classified, chabad_vars, blocking, main_vars >>

\* The synchronous call returns or raises; the handler sends the result
\* or its error reply and gives the thread back.
SyncReturns(h, raised) ==
  /\ handlers[h].pc = "Blocking"
  /\ blocking = h
  /\ handlers' = [handlers EXCEPT ![h] =
        [@ EXCEPT !.pc = "Replied", !.reply = IF raised THEN "fallback" ELSE "result"]]
  /\ blocking' = 0
  /\ UNCHANGED << request_vars, query, ui_vars, text_call, domain_call, classified, chabad_vars, main_vars >>

\* One second passes.  A free loop runs a due timer before more time
\* passes; a loop held by a synchronous call runs nothing.
HandlerTick ==
  /\ \E h \in HandlerIds : handlers[h].pc \in {"Waiting", "Blocking"}
  /\ blocking = 0 =>
       \A h \in HandlerIds : handlers[h].pc = "Waiting" => handlers[h].waited < HandlerTimeout
  /\ handlers' =
       [h \in HandlerIds |->
          IF handlers[h].pc \in {"Waiting", "Blocking"}
            THEN [handlers[h] EXCEPT !.waited = Min(@ + 1, HandlerTimeout + 1)]
            ELSE handlers[h]]
  /\ UNCHANGED << request_vars, query, ui_vars, text_call, domain_call, classified, chabad_vars, blocking, main_vars >>

HandlerNext ==
  \/ \E h \in HandlerIds, kind \in HandlerKinds : StartHandler(h, kind)
  \/ \E h \in HandlerIds, payload \in BOOLEAN : ClientReturns(h, payload)
  \/ \E h \in HandlerIds : WaitForTimeout(h)
  \/ \E h \in HandlerIds, raised \in BOOLEAN : SyncReturns(h, raised)
  \/ HandlerTick

HandlerSpec == Init /\ [][HandlerNext]_vars

\* ------------------------------------------- classification of a response
\* the try/except of _make_request applied to one response
Classify(cl, resp) ==
  /\ LET r == make_request(cl, resp)
     IN  classified' = [client |-> cl, resp |-> resp, raised |-> r.raised, result |-> r.result]
  /\ UNCHANGED << request_vars, query, ui_vars, text_call, handler_vars, domain_call, chabad_vars, main_vars >>

ResponseNext == \E cl \in Clients, resp \in Responses : Classify(cl, resp)

ResponseSpec == Init /\ [][ResponseNext]_vars

\* --------------------------------------------------- Chabad: header, HTML
\* constructor arguments: None, '', the base64 text of b'secret', and a
\* text that base64.b64decode rejects (incorrect padding)
PublicKeys == {"None", "", "pub"}
SecretKeys == {"None", "c2VjcmV0", "abc"}

\* `not key`
falsy(key) == key \in {"None", ""}

b64decodes(key) == key = "c2VjcmV0"

\* _create_auth_header: the header value's presence, or what it raises
create_auth_header(keys) ==
  IF falsy(keys.public_key) \/ falsy(keys.secret_key)
    THEN [raised |-> "none", header |-> FALSE]
    ELSE IF ~b64decodes(keys.secret_key)
           THEN [raised |-> "binascii.Error", header |-> FALSE]
           ELSE [raised |-> "none", header |-> TRUE]

\* what the three patterns of _parse_html_content match in a page, in
\* document order: ld+json script blocks whose text parses or does not,
\* <title> elements, <meta name="description"> elements
ElementKinds == {"ldjson_valid", "ldjson_invalid", "title", "meta_description"}

Pages == SeqsUpTo(ElementKinds, MaxElements)

\* position of the first element of the page among `kinds`, 0 if none
RECURSIVE first_match(_, _, _)
first_match(html, i, kinds) ==
  IF i > Len(html) THEN 0
  ELSE IF html[i] \in kinds THEN i
  ELSE first_match(html, i + 1, kinds)

\* a variant that gives up when the first block does not parse
first_parsing_block_no_continue(html) ==
  LET i == first_match(html, 1, {"ldjson_valid", "ldjson_invalid"})
  IN  IF i # 0 /\ html[i] = "ldjson_valid" THEN i ELSE 0

\* the for loop over jsonld_matches: json.loads, break on success,
\* continue on JSONDecodeError
first_parsing_block(html) == first_match(html, 1, {"ldjson_valid"})

parse_html_content(html) ==
  [NoFields EXCEPT !.structured_data = first_parsing_block(html),
                   !.title = first_match(html, 1, {"title"}),
                   !.description = first_match(html, 1, {"meta_description"})]

\* the page read from a response; only an HTML body has elements, and
\* it is read as a page only when the response does not declare JSON
page_read(resp, page) ==
  IF resp.exc = "none" /\ resp.status = 200 /\ ~resp.json_ctype /\ resp.body.shape = "html"
    THEN page
    ELSE << >>

\* _make_request from `headers = {}` on: the header is built outside the
\* try, the GET and the reading of the response inside it.
ChabadRequest(use_auth, resp) ==
  /\ LET auth == IF use_auth THEN create_auth_header(chabad_keys)
                 ELSE [raised |-> "none", header |-> FALSE]
         r == make_request("chabad", resp)
         html == page_read(resp, chabad_call.page)
         base == [NoChabadCall EXCEPT !.called = TRUE, !.use_auth = use_auth,
                                      !.page = chabad_call.page]
     IN  IF auth.raised # "none"
           THEN chabad_call' = [base EXCEPT !.raised = auth.raised]
           ELSE chabad_call' =
                  [base EXCEPT !.resp = resp, !.html = html, !.dispatched = TRUE,
                               !.authorization = auth.header, !.raised = r.raised,
                               !.result = IF r.result.kind = "Fields"
                                            THEN parse_html_content(html)
                                            ELSE [NoFields EXCEPT !.kind = r.result.kind]]
  /\ UNCHANGED << request_vars, query, ui_vars, text_call, handler_vars, domain_call, classified,
                  chabad_keys, main_vars >>

ChabadNext ==
  \E use_auth \in BOOLEAN, resp \in Responses : ChabadRequest(use_auth, resp)

\* a client constructed with any pair of keys, and the page that Chabad
\* serves
ChabadInit ==
  /\ time_since_last = [cl \in Clients |-> 0]
  /\ session = [cl \in Clients |-> cl = "chabad"]
  /\ books_cache = Unloaded
  /\ calls = [c \in CallIds |-> IdleCall]
  /\ returned = NoReturn
  /\ query = NoQuery
  /\ text_call = NoTextCall
  /\ handlers = [h \in HandlerIds |-> IdleHandler]
  /\ blocking = 0
  /\ domain_call = NoDomainCall
  /\ classified = Unclassified
  /\ chabad_keys \in { [public_key |-> p, secret_key |-> k] : p \in PublicKeys, k \in SecretKeys }
  /\ chabad_call \in { [NoChabadCall EXCEPT !.page = page] : page \in Pages }
  /\ MainInit
  /\ UiInit

ChabadSpec == ChabadInit /\ [][ChabadNext]_vars

\* ------------------------------------------------------ main(): shutdown
\* main() starts the web server.
StartWebServer ==
  /\ main_pc = "start"
  /\ main_pc' = "web_up"
  /\ web_runner' = "started"
  /\ UNCHANGED << request_vars, query, ui_vars, text_call, handler_vars, domain_call, classified,
                  chabad_vars, bot_closed, closed_sessions, bot_task, interrupted >>

\* start_discord_bot() constructs SefariaBot and its clients and starts the
\* bot task; main() awaits the task.
StartDiscordBot ==
  /\ main_pc = "web_up"
  /\ main_pc' = "running"
  /\ bot_task' = "pending"
  /\ UNCHANGED << request_vars, query, ui_vars, text_call, handler_vars, domain_call, classified,
                  chabad_vars, web_runner, bot_closed, closed_sessions, interrupted >>

\* start_discord_bot() returns None (no DISCORD_TOKEN, or SefariaBot()
\* raises): main() sleeps in its keep-alive loop
BotNotStarted ==
  /\ main_pc = "web_up"
  /\ main_pc' = "keepalive"
  /\ UNCHANGED << request_vars, query, ui_vars, text_call, handler_vars, domain_call, classified,
                  chabad_vars, web_runner, bot_closed, closed_sessions, bot_task, interrupted >>

\* While the bot runs, a command's first call on a client opens that
\* client's session (_ensure_session).
EnsureSession(cl) ==
  /\ main_pc = "running"
  /\ ~session[cl]
  /\ session' = [session EXCEPT ![cl] = TRUE]
  /\ UNCHANGED << time_since_last, books_cache, calls, returned, query, extra >>

\* a variant in which a failed bot task ends main()
after_bot_error_exits == "finally"

\* `except Exception` around `await bot_task`: the keep-alive loop
after_bot_error == "keepalive"

\* `await bot_task` raises an Exception
BotTaskRaises ==
  /\ main_pc = "running"
  /\ main_pc' = after_bot_error
  /\ bot_task' = "raised"
  /\ UNCHANGED << request_vars, query, ui_vars, text_call, handler_vars, domain_call, classified,
                  chabad_vars, web_runner, bot_closed, closed_sessions, interrupted >>

\* the bot task returns: main() enters `finally`
BotTaskEnds ==
  /\ main_pc = "running"
  /\ main_pc' = "finally"
  /\ bot_task' = "returned"
  /\ UNCHANGED << request_vars, query, ui_vars, text_call, handler_vars, domain_call, classified,
                  chabad_vars, web_runner, bot_closed, closed_sessions, interrupted >>

\* shutdown is requested while main() is suspended: the interrupt or the
\* cancellation is raised at its await and main() enters `finally`
Interrupt ==
  /\ main_pc \in {"running", "keepalive"}
  /\ main_pc' = "finally"
  /\ interrupted' = TRUE
  /\ UNCHANGED << request_vars, query, ui_vars, text_call, handler_vars, domain_call, classified,
                  chabad_vars, web_runner, bot_closed, closed_sessions, bot_task >>

\* the clients that bot.close() closes: SefariaBot does not override
\* close(), and no caller invokes a client's close()
closed_by_bot_close == {}

\* the finally block: web_runner.cleanup(), and bot.close() when the bot
\* was constructed; main() returns
Cleanup ==
  /\ main_pc = "finally"
  /\ main_pc' = "exited"
  /\ web_runner' = "cleaned"
  /\ bot_closed' = (bot_task # "none")
  /\ closed_sessions' =
       IF bot_task # "none"
         THEN closed_sessions \cup { cl \in closed_by_bot_close : session[cl] }
         ELSE closed_sessions
  /\ UNCHANGED << request_vars, query, ui_vars, text_call, handler_vars, domain_call, classified,
                  chabad_vars, bot_task, interrupted >>

MainNext ==
  \/ StartWebServer
  \/ StartDiscordBot
  \/ BotNotStarted
  \/ \E cl \in Clients : EnsureSession(cl)
  \/ BotTaskRaises
  \/ BotTaskEnds
  \/ Interrupt
  \/ Cleanup

MainSpec == Init /\ [][MainNext]_vars

\* ---------------------------------------------------------- domain methods
\* A domain method receives what _make_request (for Dicta: the catalog
\* cache) hands it and returns a value or raises.
\* JSON null, read by Python as None
Null == << "None" >>

\* what NLIClient._make_request can return: None, {} or a JSON object
\* without 'result', and objects whose 'result' is an object (with or
\* without 'records'), null, an array or a string
NliPayloads ==
  { "None", "empty_object", "no_result", "result_object_records", "result_object_empty",
    "result_null", "result_array", "result_string" }

\* search_hebrew_manuscripts after _make_request has returned; no try
search_hebrew_manuscripts(payload) ==
  CASE payload \in {"None", "empty_object", "no_result"} -> [raised |-> "none", value |-> "empty"]
    [] payload = "result_object_records" -> [raised |-> "none", value |-> "payload"]
    [] payload = "result_object_empty" -> [raised |-> "none", value |-> "empty"]
    [] OTHER -> [raised |-> "AttributeError", value |-> "none"]

\* catalog entries as books.json can deliver them, null fields included
NullableEntrySet ==
  { Entry(Null, << "a" >>, << >>, << >>, << "B" >>),
    Entry(<< "a" >>, << >>, Null, << "b" >>, << "A" >>),
    Entry(<< "a", "B" >>, Null, << "b" >>, << >>, Null),
    Entry(<< "b" >>, << >>, << "A" >>, << >>, << "a" >>) }

NullableCatalogs == SeqsUpTo(NullableEntrySet, MaxBooks)

\* one iteration of search_books' loop calls .lower() on None
entry_raises(book, query_, category, author) ==
  LET query_lower == lower(query_)
      author_lower == lower(author)
      names == IF book.displayName = Null THEN TRUE
               ELSE IF contains(lower(book.displayName), query_lower) THEN FALSE
               ELSE book.displayNameEnglish = Null
      authors == IF book.author = Null THEN TRUE
                 ELSE IF contains(lower(book.author), query_lower) THEN FALSE
                 ELSE book.authorEnglish = Null
      by_category == category # << >> /\ book.categoryEnglish = Null
      by_author == /\ author # << >>
                   /\ IF book.author = Null THEN TRUE
                      ELSE IF contains(lower(book.author), author_lower) THEN FALSE
                      ELSE book.authorEnglish = Null
  IN  names \/ authors \/ by_category \/ by_author

\* the loop of search_books from entry i on raises before it ends
RECURSIVE scan_raises(_, _, _, _, _, _, _)
scan_raises(books, i, found, query_, category, author, limit) ==
  IF i > Len(books) THEN FALSE
  ELSE IF entry_raises(books[i], query_, category, author) THEN TRUE
  ELSE IF entry_matches(books[i], query_, category, author)
         THEN IF found + 1 >= limit
                THEN FALSE
                ELSE scan_raises(books, i + 1, found + 1, query_, category, author, limit)
         ELSE scan_raises(books, i + 1, found, query_, category, author, limit)

\* Hebcal items: a Torah reading, another event, an event whose
\* 'category' is null, an element that is no object
ItemKinds == {"torah", "other", "null_category", "not_object"}

HebcalPayloads ==
  { [kind |-> k, items |-> << >>] : k \in {"None", "no_items", "items_null"} }
  \cup { [kind |-> "items", items |-> its] : its \in SeqsUpTo(ItemKinds, MaxItems) }

\* the for loop of get_torah_reading from item i on
RECURSIVE scan_items(_, _)
scan_items(items, i) ==
  IF i > Len(items) THEN [raised |-> "none", value |-> "None"]
  ELSE CASE items[i] = "torah" -> [raised |-> "none", value |-> "payload"]
         [] items[i] = "other" -> scan_items(items, i + 1)
         [] OTHER -> [raised |-> "AttributeError", value |-> "none"]

\* the try body of get_torah_reading after _make_request has returned
torah_reading_body(data) ==
  CASE data.kind \in {"None", "no_items"} -> [raised |-> "none", value |-> "None"]
    [] data.kind = "items_null" -> [raised |-> "TypeError", value |-> "none"]
    [] OTHER -> scan_items(data.items, 1)

\* get_torah_reading: `except Exception` returns None
get_torah_reading(data) ==
  LET r == torah_reading_body(data)
  IN  IF r.raised # "none" /\ IsSubclass(r.raised, "Exception")
        THEN [raised |-> "none", value |-> "None"]
        ELSE r

SearchHebrewManuscripts(payload) ==
  /\ LET r == search_hebrew_manuscripts(payload)
     IN  domain_call' = [NoDomainCall EXCEPT !.method = "search_hebrew_manuscripts",
                           !.payload = payload, !.raised = r.raised, !.value = r.value]
  /\ UNCHANGED << request_vars, query, ui_vars, text_call, handler_vars, classified, chabad_vars, main_vars >>

\* search_books on a filled cache: get_books_library returns the cached
\* list without suspending and the loop follows.
SearchNullableBooks(query_, category, author, limit) ==
  /\ cache_hit(books_cache)
  /\ LET books == books_cache.books
         base == [NoDomainCall EXCEPT !.method = "search_books", !.payload = "catalog",
                     !.q = query_, !.category = category,
                     !.author = author, !.limit = limit]
     IN  IF scan_raises(books, 1, 0, query_, category, author, limit)
           THEN domain_call' = [base EXCEPT !.raised = "AttributeError"]
           ELSE domain_call' =
                  [base EXCEPT !.value =
                     IF search_books(books, query_, category, author, limit) = << >>
                       THEN "empty" ELSE "payload"]
  /\ UNCHANGED << request_vars, query, ui_vars, text_call, handler_vars, classified, chabad_vars, main_vars >>

GetTorahReading(data) ==
  /\ LET r == get_torah_reading(data)
     IN  domain_call' = [NoDomainCall EXCEPT !.method = "get_torah_reading",
                           !.payload = data.kind, !.books = data.items,
                           !.raised = r.raised, !.value = r.value]
  /\ UNCHANGED << request_vars, query, ui_vars, text_call, handler_vars, classified, chabad_vars, main_vars >>

DomainNext ==
  \/ \E payload \in NliPayloads : SearchHebrewManuscripts(payload)
  \/ \E query_ \in Texts, category \in Texts, author \in Texts, limit \in Limits :
       SearchNullableBooks(query_, category, author, limit)
  \/ \E data \in HebcalPayloads : GetTorahReading(data)

\* the catalog cache has been filled by an earlier get_books_library
DomainInit ==
  /\ time_since_last = [cl \in Clients |-> rate_limit_delay[cl]]
  /\ session = [cl \in Clients |-> cl = "dicta"]
  /\ books_cache \in { [loaded |-> TRUE, books |-> cat] : cat \in NullableCatalogs }
  /\ calls = [c \in CallIds |-> IdleCall]
  /\ returned = NoReturn
  /\ query = NoQuery
  /\ ExtraInit

DomainSpec == DomainInit /\ [][DomainNext]_vars

\* ------------------------------------------------------ mention handlers
\* Every message event is dispatched to SefariaBot.on_message and to the
\* AIMessageHandler listener.  The messages of a behaviour mention the bot
\* and come from a user who is not a bot.

\* `len(self.processed_messages) > 1000`
PruneThreshold == 1000

\* `list(self.processed_messages)[:100]`
PruneCount == 100

\* the content left after the mention is removed: messages with an even id
\* consist of the mention alone
has_content(m) == m % 2 = 1

size(processed) == Cardinality(processed.ids) + processed.others

\* `old_messages = list(self.processed_messages)[:100]` and the discards: a
\* set lists its ids in hash-table order, so any PruneCount ids of the set
\* can be the ones removed; K is the part of them the behaviour names
prune(processed, K) ==
  [ids |-> processed.ids \ K, others |-> processed.others - (PruneCount - Cardinality(K))]

cleaned_up(processed) ==
  IF size(processed) > PruneThreshold
    THEN { prune(processed, K) :
             K \in { K \in SUBSET processed.ids :
                       /\ Cardinality(K) <= PruneCount
                       /\ PruneCount - Cardinality(K) <= processed.others } }
    ELSE { processed }

add(processed, m) == [processed EXCEPT !.ids = @ \cup {m}]

\* SefariaBot.on_message up to `await message.reply(response)`:
\* generate_response does not suspend
bot_on_message(processed, m) ==
  IF m \in processed.ids
    THEN { [processed |-> processed, generated |-> FALSE] }
    ELSE { [processed |-> after, generated |-> has_content(m)] :
             after \in cleaned_up(add(processed, m)) }

\* AIMessageHandler.on_message up to `async with message.channel.typing()`;
\* every branch that follows ends in one message.reply
cog_on_message(processed, m) ==
  IF m \in processed.ids
    THEN [processed |-> processed, generated |-> FALSE]
    ELSE [processed |-> add(processed, m), generated |-> TRUE]

\* the message event of m: both listeners run up to their first suspension
Deliver(m) ==
  /\ \A l \in Listeners : in_flight[l][m] + replies[l][m] < MaxReplies
  /\ \E bot \in bot_on_message(processed_messages["SefariaBot"], m) :
       LET cog == cog_on_message(processed_messages["AIMessageHandler"], m)
           started == [l \in Listeners |-> IF l = "SefariaBot" THEN bot ELSE cog]
       IN  /\ processed_messages' = [l \in Listeners |-> started[l].processed]
           /\ in_flight' =
                [l \in Listeners |->
                   [in_flight[l] EXCEPT ![m] = IF started[l].generated THEN @ + 1 ELSE @]]
  /\ UNCHANGED << request_vars, query, side_vars, lock_vars, truncate_call, random_call, archive_call, help_views, replies >>

\* message.reply of a suspended handler completes and the handler finishes
ReplySent(l, m) ==
  /\ in_flight[l][m] > 0
  /\ in_flight' = [in_flight EXCEPT ![l][m] = @ - 1]
  /\ replies' = [replies EXCEPT ![l][m] = @ + 1]
  /\ UNCHANGED << request_vars, query, side_vars, lock_vars, truncate_call, random_call, archive_call, help_views, processed_messages >>

MentionNext ==
  \/ \E m \in Messages : Deliver(m)
  \/ \E l \in Listeners, m \in Messages : ReplySent(l, m)

\* the bot has handled a number of mentions of other messages before
EarlierMentions == {0, PruneThreshold + 1 - MaxMessages}

MentionStart ==
  /\ time_since_last = [cl \in Clients |-> 0]
  /\ session = [cl \in Clients |-> FALSE]
  /\ books_cache = Unloaded
  /\ calls = [c \in CallIds |-> IdleCall]
  /\ returned = NoReturn
  /\ query = NoQuery
  /\ text_call = NoTextCall
  /\ MainInit
  /\ chabad_keys = NoKeys
  /\ chabad_call = NoChabadCall
  /\ classified = Unclassified
  /\ domain_call = NoDomainCall
  /\ handlers = [h \in HandlerIds |-> IdleHandler]
  /\ blocking = 0
  /\ \E n \in EarlierMentions :
       processed_messages = [l \in Listeners |-> [NoProcessed EXCEPT !.others = n]]
  /\ in_flight = [l \in Listeners |-> [m \in Messages |-> 0]]
  /\ replies = [l \in Listeners |-> [m \in Messages |-> 0]]
  /\ LockInit
  /\ truncate_call = NoTruncateCall
  /\ random_call = NoRandomCall
  /\ archive_call = NoArchiveCall
  /\ help_views = NoViews

MentionSpec == MentionStart /\ [][MentionNext]_vars

\* ------------------------------------------------- main(): lock-file guard
\* Several bot processes on one host share /tmp/sefaria_bot.lock.  The
\* processes run in parallel, so every statement of main() is a step of
\* its own.

\* `if os.path.exists(lock_file): return`
CheckLock(p) ==
  /\ procs[p].pc = "start"
  /\ procs' = [procs EXCEPT ![p].pc = IF lock_file # 0 THEN "exited" ELSE "checked"]
  /\ UNCHANGED << request_vars, query, side_vars, truncate_call, random_call, archive_call, help_views, mention_vars, lock_file >>

\* `open(lock_file, 'w')` creates or truncates the file and the pid is
\* written; the atexit hook is registered
CreateLock(p) ==
  /\ procs[p].pc = "checked"
  /\ lock_file' = p
  /\ procs' = [procs EXCEPT ![p].pc = "locked", ![p].atexit = TRUE]
  /\ UNCHANGED << request_vars, query, side_vars, truncate_call, random_call, archive_call, help_views, mention_vars >>

\* the ports on which another process's TCPSite listens
bound_ports(p) == { procs[o].port : o \in { o \in Procs \ {p} : procs[o].pc \in {"web_up", "running"} } }

\* start_web_server(): site.start() raises OSError when the port is taken,
\* and main() then leaves through `except Exception` and `finally`
StartSite(p) ==
  /\ procs[p].pc = "locked"
  /\ procs' = [procs EXCEPT ![p].pc =
                 IF procs[p].port \in bound_ports(p) THEN "finally" ELSE "web_up"]
  /\ UNCHANGED << request_vars, query, side_vars, truncate_call, random_call, archive_call, help_views, mention_vars, lock_file >>

\* start_discord_bot(): the bot task is created
StartBot(p) ==
  /\ procs[p].pc = "web_up"
  /\ procs' = [procs EXCEPT ![p].pc = "running"]
  /\ UNCHANGED << request_vars, query, side_vars, truncate_call, random_call, archive_call, help_views, mention_vars, lock_file >>

\* the bot task ends or the process is interrupted
Stop(p) ==
  /\ procs[p].pc \in {"web_up", "running"}
  /\ procs' = [procs EXCEPT ![p].pc = "finally"]
  /\ UNCHANGED << request_vars, query, side_vars, truncate_call, random_call, archive_call, help_views, mention_vars, lock_file >>

\* main() returns and the interpreter exits: the atexit hook removes the
\* lock file if one exists
Exit(p) ==
  /\ procs[p].pc = "finally"
  /\ procs' = [procs EXCEPT ![p].pc = "exited"]
  /\ lock_file' = IF procs[p].atexit THEN 0 ELSE lock_file
  /\ UNCHANGED << request_vars, query, side_vars, truncate_call, random_call, archive_call, help_views, mention_vars >>

LockNext ==
  \/ \E p \in Procs : CheckLock(p)
  \/ \E p \in Procs : CreateLock(p)
  \/ \E p \in Procs : StartSite(p)
  \/ \E p \in Procs : StartBot(p)
  \/ \E p \in Procs : Stop(p)
  \/ \E p \in Procs : Exit(p)

\* the processes are started together, each with its PORT, and no lock
\* file is left from an earlier run
LockStart ==
  /\ time_since_last = [cl \in Clients |-> 0]
  /\ session = [cl \in Clients |-> FALSE]
  /\ books_cache = Unloaded
  /\ calls = [c \in CallIds |-> IdleCall]
  /\ returned = NoReturn
  /\ query = NoQuery
  /\ text_call = NoTextCall
  /\ MainInit
  /\ chabad_keys = NoKeys
  /\ chabad_call = NoChabadCall
  /\ classified = Unclassified
  /\ domain_call = NoDomainCall
  /\ handlers = [h \in HandlerIds |-> IdleHandler]
  /\ blocking = 0
  /\ MentionInit
  /\ lock_file = 0
  /\ procs \in [Procs -> { [NotStarted EXCEPT !.port = port] : port \in Ports }]
  /\ truncate_call = NoTruncateCall
  /\ random_call = NoRandomCall
  /\ archive_call = NoArchiveCall
  /\ help_views = NoViews

LockSpec == LockStart /\ [][LockNext]_vars

\* ------------------------------------------------------------ truncate_text
\* the characters of a text: a letter, a space and sentence-ending marks
Chars == {"a", " ", ".", "!"}

Strings == SeqsUpTo(Chars, MaxText)


\* s[:k]
prefix(s, k) ==
  IF k >= 0 THEN SubSeq(s, 1, Min(k, Len(s)))
            ELSE SubSeq(s, 1, IF Len(s) + k > 0 THEN Len(s) + k ELSE 0)

Max(S) == CHOOSE x \in S : \A y \in S : y <= x

\* s.rfind(ch): the last index (from 0) at which ch stands, -1 when absent
rfind(s, ch) == Max({-1} \cup { i - 1 : i \in { i \in 1..Len(s) : s[i] = ch } })

ellipsis == << ".", ".", "." >>

\* max_length: format_text_response passes 2000 and 900, values longer
\* than the ellipsis
MaxLengths == (Len(ellipsis) + 1)..MaxText

\* truncate_text(text, max_length); `last_sentence > max_length * 0.7` and
\* `last_space > max_length * 0.8` in tenths
truncate_text(text, max_length) ==
  IF Len(text) = 0 THEN << >>
  ELSE IF Len(text) <= max_length THEN text
  ELSE
    LET truncated == prefix(text, max_length)
        last_sentence == Max({ rfind(truncated, "."), rfind(truncated, "!"), rfind(truncated, "?") })
        last_space == rfind(truncated, " ")
    IN  IF 10 * last_sentence > 7 * max_length
          THEN prefix(truncated, last_sentence + 1) \o ellipsis
          ELSE IF 10 * last_space > 8 * max_length
                 THEN prefix(truncated, last_space) \o ellipsis
                 ELSE prefix(truncated, max_length - 3) \o ellipsis

TruncateText(max_length) ==
  /\ truncate_call' =
       [truncate_call EXCEPT !.called = TRUE, !.max_length = max_length,
                             !.result = truncate_text(truncate_call.text, max_length)]
  /\ UNCHANGED << request_vars, query, side_vars, mention_vars, lock_vars, random_call, archive_call, help_views >>

TruncateNext == \E max_length \in MaxLengths : TruncateText(max_length)

\* any text is about to be truncated
TruncateStart ==
  /\ time_since_last = [cl \in Clients |-> 0]
  /\ session = [cl \in Clients |-> FALSE]
  /\ books_cache = Unloaded
  /\ calls = [c \in CallIds |-> IdleCall]
  /\ returned = NoReturn
  /\ query = NoQuery
  /\ text_call = NoTextCall
  /\ MainInit
  /\ chabad_keys = NoKeys
  /\ chabad_call = NoChabadCall
  /\ classified = Unclassified
  /\ domain_call = NoDomainCall
  /\ handlers = [h \in HandlerIds |-> IdleHandler]
  /\ blocking = 0
  /\ MentionInit
  /\ LockInit
  /\ truncate_call \in { [NoTruncateCall EXCEPT !.text = text] : text \in Strings }
  /\ random_call = NoRandomCall
  /\ archive_call = NoArchiveCall
  /\ help_views = NoViews

TruncateSpec == TruncateStart /\ [][TruncateNext]_vars

\* ---------------------------------------------------------- get_random_text
\* the 'categories' value of an index entry: key absent, [], a list that
\* holds the asked category or not, or a string that contains it
CategoryValues == {"absent", "empty_list", "list_with", "list_without", "str_with"}

\* an element of the index payload: a JSON object with or without 'title',
\* or something that is not an object
IndexEntries ==
  { [dict |-> d, title |-> t, categories |-> c] :
      d \in BOOLEAN, t \in BOOLEAN, c \in CategoryValues } \
  { e \in [dict : {FALSE}, title : BOOLEAN, categories : CategoryValues] :
      e.title \/ e.categories # "absent" }

Indexes == SeqsUpTo(IndexEntries, MaxBooks)

\* `isinstance(text, dict) and 'title' in text`
titled(entry) == entry.dict /\ entry.title

\* `category.lower() in text.get('categories', []).lower()
\*    if text.get('categories') else False`
category_test(entry) ==
  CASE entry.categories \in {"absent", "empty_list"} -> "False"
    [] entry.categories \in {"list_with", "list_without"} -> "AttributeError"
    [] OTHER -> "True"

all_titled(index) == { i \in 1..Len(index) : titled(index[i]) }

\* the loop over texts_data raises at the first titled entry whose test raises
filter_raises(index) == \E i \in all_titled(index) : category_test(index[i]) = "AttributeError"

filtered(index) == { i \in all_titled(index) : category_test(index[i]) = "True" }

\* the positions random.choice picks from
available_texts(with_category, index) ==
  IF with_category /\ filtered(index) # {} THEN filtered(index) ELSE all_titled(index)

\* get_random_text(category) given what the index request and get_text
\* yield: the position chosen (0 when none) and whether a text is returned
get_random_text(with_category, index_returned, index, fetched) ==
  IF ~index_returned \/ Len(index) = 0
    THEN { [chosen |-> 0, raised |-> "none", value |-> "None"] }
  ELSE IF with_category /\ filter_raises(index)
    THEN { [chosen |-> 0, raised |-> "AttributeError", value |-> "None"] }
  ELSE IF available_texts(with_category, index) = {}
    THEN { [chosen |-> 0, raised |-> "none", value |-> "None"] }
  ELSE { [chosen |-> i, raised |-> "none", value |-> IF fetched THEN "text" ELSE "None"] :
           i \in available_texts(with_category, index) }

GetRandomText(with_category, index_returned, fetched) ==
  /\ \E out \in get_random_text(with_category, index_returned, random_call.index, fetched) :
       random_call' =
         [random_call EXCEPT !.called = TRUE, !.with_category = with_category,
                             !.index_returned = index_returned, !.fetched = fetched,
                             !.chosen = out.chosen, !.raised = out.raised, !.value = out.value]
  /\ UNCHANGED << request_vars, query, side_vars, mention_vars, lock_vars, truncate_call, archive_call, help_views >>

RandomTextNext ==
  \E with_category \in BOOLEAN, index_returned \in BOOLEAN, fetched \in BOOLEAN :
    GetRandomText(with_category, index_returned, fetched)

\* the index that Sefaria serves
RandomTextStart ==
  /\ time_since_last = [cl \in Clients |-> 0]
  /\ session = [cl \in Clients |-> FALSE]
  /\ books_cache = Unloaded
  /\ calls = [c \in CallIds |-> IdleCall]
  /\ returned = NoReturn
  /\ query = NoQuery
  /\ text_call = NoTextCall
  /\ MainInit
  /\ chabad_keys = NoKeys
  /\ chabad_call = NoChabadCall
  /\ classified = Unclassified
  /\ domain_call = NoDomainCall
  /\ handlers = [h \in HandlerIds |-> IdleHandler]
  /\ blocking = 0
  /\ MentionInit
  /\ LockInit
  /\ truncate_call = NoTruncateCall
  /\ random_call \in { [NoRandomCall EXCEPT !.index = index] : index \in Indexes }
  /\ archive_call = NoArchiveCall
  /\ help_views = NoViews

RandomTextSpec == RandomTextStart /\ [][RandomTextNext]_vars

\* ------------------------------------------------------- ArchiveSearchModal
\* the archive types of ArchivesView's buttons
ArchiveTypes == {"manuscripts", "photos", "books", "maps"}

\* the search methods that NLIClient defines
nli_methods ==
  { "search_hebrew_manuscripts", "search_historical_photos", "search_jewish_books",
    "search_maps", "search_audio_recordings", "search_by_creator", "search_by_subject",
    "search_by_date_range", "search_jerusalem_collection", "get_random_item", "close" }

\* the method on_submit looks up on self.clients['nli'] for an archive type
called_method(archive_type) ==
  CASE archive_type = "manuscripts" -> "search_hebrew_manuscripts"
    [] archive_type = "photos" -> "search_historical_photos"
    [] archive_type = "books" -> "search_jewish_books"
    [] archive_type = "maps" -> "search_historical_maps"

\* a record of the 'records' list: with title and description strings,
\* without the two keys, or with a null description
RecordKinds == {"full", "bare", "null_description"}

RecordLists == SeqsUpTo(RecordKinds, MaxItems)

\* the loop over results[:3]: `desc[:150]` raises TypeError on None
listing_raises(records) ==
  \E i \in 1..Min(3, Len(records)) : records[i] = "null_description"

\* on_submit(): the number of NLI search requests made and the embed sent.
\* The four search methods share the body of search_hebrew_manuscripts.
on_submit(archive_type, payload, records, timed_out) ==
  IF called_method(archive_type) \notin nli_methods
    THEN [requests |-> 0, reply |-> "fallback"]
  ELSE IF timed_out \/ search_hebrew_manuscripts(payload).raised # "none"
    THEN [requests |-> 1, reply |-> "fallback"]
  ELSE IF search_hebrew_manuscripts(payload).value = "payload" /\ Len(records) > 0
    THEN [requests |-> 1, reply |-> IF listing_raises(records) THEN "fallback" ELSE "records"]
  ELSE [requests |-> 1, reply |-> "none_found"]

OnSubmit(archive_type, timed_out) ==
  /\ LET out == on_submit(archive_type, archive_call.payload, archive_call.records, timed_out)
     IN  archive_call' =
           [archive_call EXCEPT !.called = TRUE, !.archive_type = archive_type,
                                !.timed_out = timed_out, !.requests = out.requests,
                                !.reply = out.reply]
  /\ UNCHANGED << request_vars, query, side_vars, mention_vars, lock_vars, truncate_call,
                  random_call, help_views >>

ArchiveNext == \E archive_type \in ArchiveTypes, timed_out \in BOOLEAN : OnSubmit(archive_type, timed_out)

\* what NLI answers to the search of the entered query
ArchiveStart ==
  /\ time_since_last = [cl \in Clients |-> 0]
  /\ session = [cl \in Clients |-> FALSE]
  /\ books_cache = Unloaded
  /\ calls = [c \in CallIds |-> IdleCall]
  /\ returned = NoReturn
  /\ query = NoQuery
  /\ text_call = NoTextCall
  /\ MainInit
  /\ chabad_keys = NoKeys
  /\ chabad_call = NoChabadCall
  /\ classified = Unclassified
  /\ domain_call = NoDomainCall
  /\ handlers = [h \in HandlerIds |-> IdleHandler]
  /\ blocking = 0
  /\ MentionInit
  /\ LockInit
  /\ truncate_call = NoTruncateCall
  /\ random_call = NoRandomCall
  /\ archive_call \in
       { [NoArchiveCall EXCEPT !.payload = payload, !.records = records] :
           payload \in NliPayloads, records \in RecordLists }
  /\ help_views = NoViews

ArchiveSpec == ArchiveStart /\ [][ArchiveNext]_vars

\* ------------------------------------------- cancellation of a request call
\* A handler awaits the client under asyncio.wait_for(..., timeout=8.0);
\* when the timeout fires, CancelledError is raised in the call at the
\* await at which it is suspended.

\* a variant in which the rate-limit wait swallows the cancellation and
\* the call goes on to its GET
on_cancel_dispatches(call) == dispatch(call)

\* CancelledError is not an Exception: it leaves _rate_limit before the
\* time is stamped, and the GET's `async with` past the except clauses
on_cancel(call) == [call EXCEPT !.pc = "Cancelled", !.sleep = 0, !.waited = 0]

Cancel(c) ==
  /\ calls[c].pc \in {"RateWait", "Dispatched"}
  /\ calls' = [calls EXCEPT ![c] =
                 IF calls[c].pc = "RateWait" THEN on_cancel(calls[c])
                 ELSE [calls[c] EXCEPT !.pc = "Cancelled", !.sleep = 0, !.waited = 0]]
  /\ returned' = [NoReturn EXCEPT !.call = c, !.client = calls[c].client,
                                  !.raised = "CancelledError",
                                  !.fetched = calls[c].pc = "Dispatched"]
  /\ UNCHANGED << session, time_since_last, books_cache, query, extra >>

\* the calls of SearchModal.on_submit: all on the Sefaria client
CancelCall(c, cl) ==
  /\ cl = "sefaria"
  /\ Enter(c, cl)

CancelNext ==
  \/ \E c \in CallIds, cl \in Clients : CancelCall(c, cl)
  \/ \E c \in CallIds : RateLimitWake(c)
  \/ \E c \in CallIds, resp \in Responses : Respond(c, resp)
  \/ \E c \in CallIds : Cancel(c)
  \/ Tick

CancelSpec == Init /\ [][CancelNext]_vars

\* -------------------------------------------------------- HelpNavigationView
\* HelpNavigationView(embeds): `self.current_page = 0`
new_view(n) == [embeds |-> n, current_page |-> 0, pressed |-> "none", response |-> "none"]

\* the help command sends a view over its list of embeds
OpenHelp(v, n) ==
  /\ help_views[v].embeds = 0
  /\ help_views' = [help_views EXCEPT ![v] = new_view(n)]
  /\ UNCHANGED << request_vars, query, side_vars, mention_vars, lock_vars, truncate_call,
                  random_call, archive_call >>

\* the Previous button
previous_page(view) ==
  IF view.current_page > 0
    THEN [view EXCEPT !.current_page = @ - 1, !.pressed = "previous", !.response = "edit_message"]
    ELSE [view EXCEPT !.pressed = "previous", !.response = "defer"]

\* a variant of the Next button without the test for the last page
next_page_unguarded(view) ==
  [view EXCEPT !.current_page = @ + 1, !.pressed = "next", !.response = "edit_message"]

\* the Next button
next_page(view) ==
  IF view.current_page < view.embeds - 1
    THEN [view EXCEPT !.current_page = @ + 1, !.pressed = "next", !.response = "edit_message"]
    ELSE [view EXCEPT !.pressed = "next", !.response = "defer"]

PressPrevious(v) ==
  /\ help_views[v].embeds > 0
  /\ help_views' = [help_views EXCEPT ![v] = previous_page(help_views[v])]
  /\ UNCHANGED << request_vars, query, side_vars, mention_vars, lock_vars, truncate_call,
                  random_call, archive_call >>

PressNext(v) ==
  /\ help_views[v].embeds > 0
  /\ help_views' = [help_views EXCEPT ![v] = next_page(help_views[v])]
  /\ UNCHANGED << request_vars, query, side_vars, mention_vars, lock_vars, truncate_call,
                  random_call, archive_call >>

HelpNext ==
  \/ \E v \in ViewIds, n \in 1..MaxPages : OpenHelp(v, n)
  \/ \E v \in ViewIds : PressPrevious(v)
  \/ \E v \in ViewIds : PressNext(v)

HelpSpec == Init /\ [][HelpNext]_vars

\* ------------------------------------------------------------------ claims
\* C1: under any interleaving of concurrent calls on one client, a GET is
\* dispatched only when at least the client's minimum interval has elapsed
\* since the previous dispatch on that client.
C1_MinimumIntervalBetweenDispatches ==
  [][\A c \in CallIds :
       (/\ calls'[c].gets > calls[c].gets
        /\ \E d \in CallIds : d # c /\ calls[d].gets > 0)
       => time_since_last[calls'[c].client] >= rate_limit_delay[calls'[c].client]]_vars

\* C2: when calls enter _rate_limit one after another, a sleeping call has
\* asked for exactly interval - elapsed (> 0), a call sleeps exactly when
\* less than the interval has elapsed, every dispatch comes at least the
\* interval after the previous time stamp, and every sleep ends.
C2_SequentialRateLimit ==
  /\ [](\A c \in CallIds :
          calls[c].pc = "RateWait" =>
            /\ calls[c].sleep > 0
            /\ calls[c].sleep =
                 rate_limit_delay[calls[c].client]
                   - (time_since_last[calls[c].client] - calls[c].waited))
  /\ [][\A c \in CallIds :
          LET cl == calls'[c].client
          IN  /\ (calls[c].pc = "Idle" /\ calls'[c].pc = "RateWait") =>
                   /\ time_since_last[cl] < rate_limit_delay[cl]
                   /\ calls'[c].sleep = rate_limit_delay[cl] - time_since_last[cl]
              /\ (calls[c].pc = "Idle" /\ calls'[c].pc = "Dispatched") =>
                   time_since_last[cl] >= rate_limit_delay[cl]
              /\ calls'[c].gets > calls[c].gets =>
                   time_since_last[cl] >= rate_limit_delay[cl]]_vars
  /\ \A c \in CallIds : (calls[c].pc = "RateWait") ~> (calls[c].pc # "RateWait")

\* a second call is asleep in _rate_limit after an earlier call returned
C2_Witness ==
  \E c, d \in CallIds :
    /\ calls[c].pc = "Done" /\ calls[c].gets = 1
    /\ calls[d].pc = "RateWait" /\ calls[d].waited > 0

\* number of assignments to books_cache made so far
CacheWrites ==
  Cardinality({c \in CallIds :
     calls[c].client = "dicta" /\ calls[c].pc = "Done" /\ calls[c].gets > 0})

\* C3: under any interleaving of get_books_library callers the cache is
\* assigned at most once, and a successfully downloaded catalog is never
\* replaced.
C3_CacheAssignedOnce ==
  [][/\ CacheWrites' <= 1
     /\ (books_cache.loaded /\ books_cache.books # NoBooks) => books_cache' = books_cache]_vars

RECURSIVE SumGets(_)
SumGets(n) == IF n = 0 THEN 0 ELSE calls[n].gets + SumGets(n - 1)

\* GETs of the catalog URL issued so far
CatalogGets == IF \E c \in CallIds : calls[c].client = "dicta" THEN SumGets(MaxCalls) ELSE 0

\* C4: when each get_books_library call starts after the previous one
\* returned, one GET is issued in total, every call returns the cached
\* sequence, the cache never changes once set, and after a failed download
\* the calls return the empty sequence.
C4_SerialCatalogLoad ==
  /\ [](/\ CatalogGets <= 1
        /\ (\E c \in CallIds : calls[c].client = "dicta" /\ calls[c].pc = "Done") =>
             (CatalogGets = 1 /\ books_cache.loaded)
        /\ returned.client = "dicta" =>
             /\ returned.result = BooksResult(books_cache.books)
             /\ (returned.fetched /\ returned.status # 200) => books_cache.books = NoBooks)
  /\ [][books_cache.loaded => books_cache' = books_cache]_vars

\* a second get_books_library call was served from the cache
C4_Witness ==
  \E c, d \in CallIds :
    /\ c # d
    /\ calls[c].client = "dicta" /\ calls[c].pc = "Done" /\ calls[c].gets = 1
    /\ calls[d].client = "dicta" /\ calls[d].pc = "Done" /\ calls[d].gets = 0
    /\ returned.call = d

C7_CallStateMachine ==
  [][\A c \in CallIds :
       LET p == calls[c].pc
           q == calls'[c].pc
       IN  /\ p = "Idle" =>
                \/ q \in {"Idle", "RateWait", "Dispatched"}
                \/ q = "Done" /\ calls'[c].client = "dicta" /\ books_cache.loaded
           /\ p = "RateWait" => q \in {"RateWait", "Dispatched"}
           /\ p = "Dispatched" => q \in {"Dispatched", "Backoff", "Done"}
           /\ p = "Backoff" => q \in {"Backoff", "Done"}
           /\ p = "Done" => q = "Done"
           /\ calls'[c].gets =
                calls[c].gets + (IF p # "Dispatched" /\ q = "Dispatched" THEN 1 ELSE 0)
           /\ calls'[c].gets <= 1
           /\ (p # "Done" /\ q = "Done") <=> (returned' # returned /\ returned'.call = c)
           /\ (p # "Done" /\ q = "Done") => returned'.raised = "none"]_vars

\* a call answered with 429 is Done after one GET
C7_Witness ==
  \E c \in CallIds :
    /\ calls[c].pc = "Done" /\ calls[c].gets = 1
    /\ returned.call = c /\ returned.status = 429 /\ returned.waited > 0

\* C8: search_books returns at most limit entries, for every limit >= 0.
C8_AtMostLimit ==
  query.op = "search" => Len(query.books) <= query.limit

\* the matching rule as the claim words it
Matches(book, query_, category, author) ==
  /\ \E field \in {book.displayName, book.displayNameEnglish, book.author, book.authorEnglish} :
       contains(lower(field), lower(query_))
  /\ category = <<>> \/ contains(lower(book.categoryEnglish), lower(category))
  /\ \/ author = <<>>
     \/ contains(lower(book.author), lower(author))
     \/ contains(lower(book.authorEnglish), lower(author))

AllMatches(books, query_, category, author) ==
  SelectSeq(books, LAMBDA book : Matches(book, query_, category, author))

\* C9: for limit >= 1 search_books returns the first min(limit, number of
\* matches) matching entries, in catalog order.
C9_FirstMatchesInOrder ==
  (query.op = "search" /\ query.limit >= 1) =>
    LET matching == AllMatches(books_cache.books, query.q, query.category, query.author)
    IN  query.books = SubSeq(matching, 1, Min(query.limit, Len(matching)))

\* a filtered search that skipped a non-matching entry and stopped at the
\* limit with a match left over
C9_Witness ==
  /\ query.op = "search"
  /\ query.limit = 1
  /\ query.category # <<>>
  /\ Len(AllMatches(books_cache.books, query.q, query.category, query.author)) > query.limit
  /\ query.books # <<>>

\* positions of the catalog whose categoryEnglish contains the filter
Restricted(books, category) ==
  { i \in 1..Len(books) : contains(lower(books[i].categoryEnglish), lower(category)) }

\* C10: get_random_book returns None exactly when the restricted catalog
\* is empty and otherwise one of its entries (any entry of the catalog
\* when there is no filter).
C10_RandomBookFromFiltered ==
  query.op = "random" =>
    LET books == books_cache.books
        restricted == Restricted(books, query.category)
    IN  /\ ~query.found <=> restricted = {}
        /\ query.found => \E i \in restricted : query.books = << books[i] >>
        /\ (query.found /\ query.category = <<>>) =>
             \E i \in 1..Len(books) : query.books = << books[i] >>
        /\ (query.category = <<>> /\ books # <<>>) => query.found

\* a filtered draw that left out an entry of another category
C10_Witness ==
  /\ query.op = "random"
  /\ query.category # <<>>
  /\ query.found
  /\ Cardinality(Restricted(books_cache.books, query.category)) < Len(books_cache.books)

\* the claim's reading of the reference
SingleVerseReference(reference) ==
  (\E i \in 1..Len(reference) : reference[i] = ":")
    /\ ~(\E i \in 1..Len(reference) : reference[i] = "-")

\* an upstream list longer than n
UpstreamLonger(n) ==
  \E key \in {"text", "he"} :
    text_call.upstream[key].kind = "list" /\ Len(text_call.upstream[key].items) > n

\* every list-valued field of the result is the upstream list's prefix of
\* at most n elements
PrefixOfAtMost(n) ==
  \A key \in {"text", "he"} :
    text_call.result[key].kind = "list" =>
      LET r == text_call.result[key].items
          u == text_call.upstream[key].items
      IN  /\ text_call.upstream[key].kind = "list"
          /\ Len(r) <= n
          /\ Len(r) <= Len(u)
          /\ \A i \in 1..Len(r) : r[i] = u[i]
          /\ Len(u) <= n => r = u
          /\ Len(u) > n => Len(r) = n

\* C11: for a reference with ':' and no '-', a payload returned by
\* get_text has list-valued 'text' and 'he' of at most one element, the
\* first of the upstream list; single_verse is set exactly when an
\* upstream list had more than one element; truncated is never set.
C11_SingleVerseCut ==
  (/\ text_call.called
   /\ SingleVerseReference(text_call.reference)
   /\ text_call.result.kind # "None") =>
    /\ PrefixOfAtMost(1)
    /\ text_call.result.single_verse <=> UpstreamLonger(1)
    /\ ~text_call.result.truncated

\* a single-verse reference whose Hebrew list alone was longer than one
C11_Witness ==
  /\ text_call.called
  /\ SingleVerseReference(text_call.reference)
  /\ text_call.upstream.text.kind = "list" /\ Len(text_call.upstream.text.items) = 1
  /\ Len(text_call.upstream.he.items) > 1
  /\ Len(text_call.result.he.items) = 1
  /\ text_call.result.single_verse

\* C12: for a reference without ':' or with '-', a payload returned by
\* get_text has list-valued 'text' and 'he' of at most 3 elements, the
\* prefix of the upstream list; truncated is set exactly when an upstream
\* list had more than 3 elements; single_verse is never set.
C12_RangeCut ==
  (/\ text_call.called
   /\ ~SingleVerseReference(text_call.reference)
   /\ text_call.result.kind # "None") =>
    /\ PrefixOfAtMost(3)
    /\ text_call.result.truncated <=> UpstreamLonger(3)
    /\ ~text_call.result.single_verse

\* a range whose text list was cut to three and whose Hebrew list of
\* exactly three was kept
C12_Witness ==
  /\ text_call.called
  /\ ~SingleVerseReference(text_call.reference)
  /\ Len(text_call.upstream.text.items) > 3
  /\ Len(text_call.upstream.he.items) = 3
  /\ Len(text_call.result.text.items) = 3
  /\ text_call.result.he = text_call.upstream.he
  /\ text_call.result.truncated

\* C13: a handler waiting on an external service (source client,
\* translation, AI reply) never waits longer than the bound of 8 seconds.
C13_WaitsAreBounded ==
  \A h \in HandlerIds :
    handlers[h].pc \in {"Waiting", "Blocking"} => handlers[h].waited <= HandlerTimeout

\* C14: while one interaction waits on an external call, every other
\* interaction in flight can take its next step.
C14_OthersCanStep ==
  \A h, g \in HandlerIds :
    (/\ h # g
     /\ handlers[h].pc \in {"Waiting", "Blocking"}
     /\ handlers[g].pc = "Waiting") =>
      ENABLED (ClientReturns(g, TRUE) \/ WaitForTimeout(g))

\* C15: a domain method returns a payload or its empty / None value for
\* every value _make_request can hand it, unexpected JSON shapes included,
\* and never raises.
C15_DomainMethodsNeverRaise ==
  domain_call.method # "none" =>
    /\ domain_call.raised = "none"
    /\ domain_call.value \in {"payload", "empty", "None"}

\* a 200 response that declares JSON and whose body does not parse,
\* received by the Chabad or the Dicta client
DeclaredJsonDoesNotParse ==
  /\ classified.client \in {"chabad", "dicta"}
  /\ classified.resp.exc = "none"
  /\ classified.resp.status = 200
  /\ classified.resp.json_ctype
  /\ classified.resp.body.shape \in {"badjson", "html"}

\* C16 as stated: a 200 response declaring application/json whose body is
\* not valid JSON yields an empty extracted-fields record, not None and
\* not an error.
C16_BadJsonGivesEmptyRecord ==
  DeclaredJsonDoesNotParse =>
    /\ classified.raised = "none"
    /\ classified.result.kind = "Fields"

\* C16 amended: such a response yields None; the decode error is caught
\* and does not reach the caller.
C16_BadJsonGivesNone ==
  DeclaredJsonDoesNotParse =>
    /\ classified.raised = "none"
    /\ classified.result = None

\* the Chabad client was handed such a response
C16_Witness ==
  /\ DeclaredJsonDoesNotParse
  /\ classified.client = "chabad"
  /\ classified.resp.body.shape = "badjson"

\* a 200 response that does not declare JSON reached the Chabad client
HtmlPath ==
  /\ chabad_call.dispatched
  /\ chabad_call.resp.exc = "none"
  /\ chabad_call.resp.status = 200
  /\ ~chabad_call.resp.json_ctype

\* positions of the page's elements of one kind
Positions(kind) == { i \in 1..Len(chabad_call.html) : chabad_call.html[i] = kind }

C19_OtherClientsUntouched ==
  /\ [][\A c \in CallIds :
          calls'[c].pc # calls[c].pc =>
            LET a == calls'[c].client
            IN  /\ \A b \in Clients \ {a} :
                     /\ time_since_last'[b] = time_since_last[b]
                     /\ session'[b] = session[b]
                /\ a # "dicta" => books_cache' = books_cache
                /\ \A d \in CallIds \ {c} : calls'[d] = calls[d]
                /\ (calls[c].pc = "Idle" /\ calls'[c].pc = "RateWait") =>
                     calls'[c].sleep = rate_limit_delay[a] - time_since_last[a]
                /\ (calls[c].pc = "Idle" /\ time_since_last[a] >= rate_limit_delay[a]) =>
                     calls'[c].pc \in {"Dispatched", "Done"}]_vars
  /\ [](\A d \in CallIds :
          (calls[d].pc = "RateWait" /\ calls[d].waited >= calls[d].sleep) =>
            ENABLED RateLimitWake(d))

\* while a Hebcal call sits in its 429 wait, a Dicta call has downloaded
\* the catalog
C19_Witness ==
  \E c, d \in CallIds :
    /\ calls[c].client = "hebcal" /\ calls[c].pc = "Backoff" /\ calls[c].waited > 0
    /\ calls[d].client = "dicta" /\ calls[d].pc = "Done" /\ calls[d].gets = 1
    /\ returned.call = d
    /\ books_cache.books # NoBooks

\* a key is configured
Present(key) == key # "None" /\ key # ""

\* C20: a Chabad request is dispatched whether or not credentials are
\* configured, and carries an Authorization header exactly when use_auth
\* was passed and both keys are present.
C20_SignedIffRequestedAndKeyed ==
  chabad_call.called =>
    /\ chabad_call.dispatched
    /\ chabad_call.authorization <=>
         (/\ chabad_call.use_auth
          /\ Present(chabad_keys.public_key)
          /\ Present(chabad_keys.secret_key))

\* C18: when main() has left its finally block, every client session
\* opened during the run has been closed.
C18_SessionsClosedAtExit ==
  main_pc = "exited" => \A cl \in Clients : session[cl] => cl \in closed_sessions

\* C21: a message that mentions the bot gets at most one reply, counted over
\* SefariaBot.on_message and the AIMessageHandler listener together.
C21_OneReplyPerMention ==
  \A m \in Messages : replies["SefariaBot"][m] + replies["AIMessageHandler"][m] <= 1

\* C22: SefariaBot.on_message generates an AI response at most once per
\* message id, whatever the deliveries and redeliveries of the id.
C22_OneResponsePerId ==
  \A m \in Messages : in_flight["SefariaBot"][m] + replies["SefariaBot"][m] <= 1

\* C23: whenever the handlers are suspended or have finished, each
\* listener's set of processed ids holds at most 1000 ids.
C23_ProcessedAtMostThreshold ==
  \A l \in Listeners : size(processed_messages[l]) <= PruneThreshold

\* C24: of the bot processes started together, at most one gets past the
\* lock-file guard and starts the web server or the Discord bot.
C24_OneProcessPastGuard ==
  Cardinality({ p \in Procs : procs[p].pc \in {"web_up", "running"} }) <= 1

\* C25: once the web server has started it stays up while no shutdown is
\* requested, also when the bot could not be started or its task ended with
\* an exception; web_runner is cleaned up only in main()'s finally block,
\* and once.
C25_WebServerStaysUp ==
  /\ [](/\ main_pc \notin {"start", "web_up"}
        /\ bot_task \in {"none", "raised"}
        /\ ~interrupted
        => web_runner = "started" /\ main_pc = "keepalive")
  /\ [][web_runner' # web_runner =>
          \/ web_runner = "None" /\ web_runner' = "started"
          \/ web_runner = "started" /\ web_runner' = "cleaned" /\ main_pc = "finally"]_vars

C25_Witness ==
  /\ main_pc = "exited"
  /\ bot_task = "raised"
  /\ interrupted
  /\ web_runner = "cleaned"

\* C26: truncate_text returns a string of at most max_length characters,
\* and returns the text itself when the text has at most max_length
\* characters.
C26_TruncatedFits ==
  truncate_call.called =>
    /\ Len(truncate_call.result) <= truncate_call.max_length
    /\ Len(truncate_call.text) <= truncate_call.max_length
         => truncate_call.result = truncate_call.text

\* the index entries that are objects carry their categories as lists
CategoriesAreLists(index) ==
  \A i \in 1..Len(index) :
    index[i].dict => index[i].categories \in {"empty_list", "list_with", "list_without"}

Matching(index) == { i \in all_titled(index) : index[i].categories = "list_with" }

\* C27: with a category and an index whose entries carry category lists,
\* get_random_text fetches an entry that matches the category when one
\* exists and any titled entry otherwise, and returns None only when the
\* index request yields nothing, no entry has a title, or the fetch yields
\* nothing.
C27_RandomTextByCategory ==
  (/\ random_call.called
   /\ random_call.with_category
   /\ CategoriesAreLists(random_call.index)) =>
    /\ random_call.value = "None" =>
         \/ ~random_call.index_returned
         \/ all_titled(random_call.index) = {}
         \/ ~random_call.fetched
    /\ random_call.chosen # 0 =>
         IF Matching(random_call.index) # {}
           THEN random_call.chosen \in Matching(random_call.index)
           ELSE random_call.chosen \in all_titled(random_call.index)

\* C28: for each of the four archive types, submitting the modal issues
\* exactly one NLI search request, and when NLI returns a non-empty list of
\* records (with string descriptions) the reply lists those records.
C28_ArchiveSearchListsRecords ==
  archive_call.called =>
    /\ archive_call.requests = 1
    /\ (/\ ~archive_call.timed_out
        /\ archive_call.payload = "result_object_records"
        /\ Len(archive_call.records) > 0
        /\ ~listing_raises(archive_call.records))
         => archive_call.reply = "records"

\* the step in which call c is cancelled
Cancelled(c) ==
  /\ calls[c].pc \in {"RateWait", "Dispatched"}
  /\ returned'.call = c
  /\ returned'.raised = "CancelledError"

\* C29: a call cancelled in its rate-limit wait issues no GET, then or
\* later, and leaves the client's last-request time as it was; every GET is
\* issued together with the stamping of that time, and a cancellation after
\* the GET does not change it.
C29_CancelledWaitLeavesNoTrace ==
  [][\A c \in CallIds :
       /\ Cancelled(c) =>
            /\ calls'[c].pc = "Cancelled"
            /\ calls'[c].gets = calls[c].gets
            /\ time_since_last' = time_since_last
       /\ calls[c].pc = "Cancelled" => calls'[c] = calls[c]
       /\ calls'[c].gets # calls[c].gets =>
            /\ calls'[c].gets = calls[c].gets + 1
            /\ time_since_last'[calls'[c].client] = 0]_vars

C29_Witness ==
  \E c, d \in CallIds :
    /\ calls[c].pc = "Cancelled" /\ calls[c].gets = 0
    /\ calls[d].pc = "Cancelled" /\ calls[d].gets = 1
    /\ time_since_last["sefaria"] > 0

\* C30: whatever buttons are pressed, a view's current_page stays within
\* 0 .. len(embeds)-1; Previous on the first page and Next on the last page
\* leave it unchanged and every other press moves it by exactly one.
C30_PageStaysInRange ==
  /\ [](\A v \in ViewIds :
          help_views[v].embeds > 0 =>
            help_views[v].current_page \in 0..(help_views[v].embeds - 1))
  /\ [][\A v \in ViewIds :
          (help_views[v].embeds > 0 /\ help_views'[v] # help_views[v]) =>
            LET old == help_views[v].current_page
                last == help_views[v].embeds - 1
            IN  /\ help_views'[v].embeds = help_views[v].embeds
                /\ help_views'[v].pressed = "previous" =>
                     help_views'[v].current_page = IF old = 0 THEN 0 ELSE old - 1
                /\ help_views'[v].pressed = "next" =>
                     help_views'[v].current_page = IF old = last THEN last ELSE old + 1]_vars

C30_Witness ==
  \E v \in ViewIds :
    /\ help_views[v].embeds = MaxPages
    /\ help_views[v].current_page = MaxPages - 1
    /\ help_views[v].pressed = "next"
    /\ help_views[v].response = "defer"

TypeOK ==
  /\ \A c \in CallIds : calls[c].pc \in {"Idle", "RateWait", "Dispatched", "Backoff", "Done", "Cancelled"}

====
